---- MODULE Spec2Model ----
(***************************************************************************)
(* Job control plane (app.py, queue_manager.py, worker.py, processing.py)  *)
(* and clip renderer (complete_viral_clip_generator.py) of the caption     *)
(* service.  The broker is Redis driven through RQ: a hash per job id and  *)
(* one list of job ids ("default").  Strings that the code parses are      *)
(* sequences of one-character strings.                                     *)
(***************************************************************************)
EXTENDS Integers, Sequences, FiniteSets, TLC

\* ------------------------------------------------------------------ bounds
NumJobIds == 2
MaxEnqueues == 2
MaxClips == 3
MaxCandidates == 12
MaxSegments == 4
MaxWords == 2
MaxChunkWords == 4
MaxLineWords == 3
MaxGaps == 6
MaxFrames == 2
MaxEnergy == 2

\* --------------------------------------------------------------- constants
DefaultClipDuration == 30
DefaultMinClipLength == 30
DefaultMaxClipLength == 90
DefaultTargetClipLength == 60
DownloadTimeout == 1800

JobIds == 1..NumJobIds
NoneV == "None"

\* ------------------------------------------------- parsing (int, json.loads)
Digits == {"0", "1", "2", "3", "4", "5", "6", "7", "8", "9"}

DigitVal(c) ==
    CASE c = "0" -> 0 [] c = "1" -> 1 [] c = "2" -> 2 [] c = "3" -> 3
      [] c = "4" -> 4 [] c = "5" -> 5 [] c = "6" -> 6 [] c = "7" -> 7
      [] c = "8" -> 8 [] OTHER -> 9

\* int(s) accepts an optional sign followed by at least one digit
UnsignedPart(s) == IF Len(s) > 0 /\ s[1] \in {"-", "+"} THEN Tail(s) ELSE s

IsIntLiteral(s) ==
    /\ Len(UnsignedPart(s)) > 0
    /\ \A i \in 1..Len(UnsignedPart(s)) : UnsignedPart(s)[i] \in Digits

RECURSIVE DigitsValue(_)
DigitsValue(s) ==
    IF s = <<>> THEN 0
    ELSE 10 * DigitsValue(SubSeq(s, 1, Len(s) - 1)) + DigitVal(s[Len(s)])

PyInt(s) ==
    IF Len(s) > 0 /\ s[1] = "-" THEN 0 - DigitsValue(UnsignedPart(s))
    ELSE DigitsValue(UnsignedPart(s))

\* json.loads on the template strings of the model: an object with or
\* without a "name" member ("n" stands for the member "name": "Karaoke")
JsonValid(s) == s \in {<<"{", "}">>, <<"{", "n", "}">>}

JsonLoads(s) == IF s = <<"{", "n", "}">> THEN "Karaoke" ELSE "unnamed"

\* `int(x) if x else default`; ParseOk says whether int() raises ValueError
ParseOk(s) == s = <<>> \/ IsIntLiteral(s)

ParseOr(s, default) == IF s = <<>> THEN default ELSE PyInt(s)

ParseOrNone(s) == IF s = <<>> THEN -1 ELSE PyInt(s)

\* ------------------------------------------------------------------- state
VARIABLES
    jobs,       \* broker: job id -> job hash (status, args, meta, result, exc_info)
    queue,      \* broker: the "default" list; id is stored, n and sub are history
    nextTicket, \* history: number of the next accepted enqueue
    claimed,    \* history: the enqueue numbers a worker has claimed
    submitted,  \* history: the ids ever enqueued
    response,   \* the last HTTP response of the control API
    wpc,        \* worker: position in run_opus_transcription ("idle" between jobs)
    wjob,       \* worker: id of the job it runs (0 when idle)
    wargs,      \* worker: the arguments run_opus_transcription was called with
    wsub,       \* history: the parameters submitted with the claimed enqueue
    werr,       \* history: a child process or stage of this run raised
    worig,      \* worker: original_cwd, saved before the burn's chdir
    disk,       \* temporary files and directories of jobs that exist on disk
    cwd,        \* worker process: current working directory
    gpc,        \* clip generator: position ("off" when it does not run)
    gjob,       \* clip generator: what the global name job_id is bound to
    gn,         \* clip generator: number of selected clips (viral_clips)
    gidx,       \* clip generator: index of the clip in the render loop
    gresult,    \* clip generator: generated_clips, by clip index
    gtried,     \* history: the clips whose loop body was entered
    gdone,      \* history: the clips _process_complete_clip returned True for
    gfail,      \* history: clip index -> stage at which it failed, or "none"
    gdisk,      \* clip generator: temporary files and directories on disk
    gcwd,       \* clip generator process: current working directory
    gorig,      \* clip generator: original_cwd of the clip being burned
    gstatus,    \* clip generator CLI: last status written to the sidecar file
    gexit,      \* clip generator CLI: exit code of the process (NotExited before)
    glog,       \* clip generator: clip index -> the failure line printed for it
    spc,        \* selector: position of a call of _find_viral_moments
    selIn,      \* selector: the arguments of the call
    selOut,     \* selector: the list the call returned
    segpc,      \* segmentation: position of a call of segment_transcript
    segIn,      \* segmentation: the transcript and the detector's lengths
    segOut,     \* segmentation: the candidate clips the call returned
    dpc,        \* download of process_video: position in the retry loop
    attempt,    \* download of process_video: the loop variable `attempt`
    dlog,       \* history: attempts, their results and the sleeps, in order
    cpc,        \* caption times: position of the compilation for a clip
    capIn,      \* caption times: the window's start and the words' starts
    capOut,     \* caption times: the start written for each word's event
    kpc,        \* chunking: position in chunk_words_variable
    kIn,        \* chunking: the number of words and the min/max setting
    krun,       \* chunking: which of two compilations of the same input runs
    ki,         \* chunking: the loop variable i
    kprev,      \* chunking: prev_size
    klines,     \* chunking: the sizes of the lines appended so far
    kfirst,     \* chunking: the line sizes the first compilation returned
    epc,        \* caption events: which recipe compiled eOut
    eIn,        \* caption events: the word-timed segments, start and end in ms
    eOut,       \* caption events: the events of the script, in order
    fpc,        \* detection: position of a call of the face or voice operation
    fIn,        \* detection: the operation and what its video or audio is like
    fOut        \* detection: what the call returned, or that it raised

vars == <<jobs, queue, nextTicket, claimed, submitted, response,
          wpc, wjob, wargs, wsub, werr, worig, disk, cwd,
          gpc, gjob, gn, gidx, gresult, gtried, gdone, gfail, gdisk, gcwd, gorig,
          gstatus, gexit, glog, spc, selIn, selOut, segpc, segIn, segOut,
          dpc, attempt, dlog, cpc, capIn, capOut,
          kpc, kIn, krun, ki, kprev, klines, kfirst,
          epc, eIn, eOut, fpc, fIn, fOut>>

clipVars == <<gpc, gjob, gn, gidx, gresult, gtried, gdone, gfail, gdisk, gcwd, gorig,
              gstatus, gexit, glog>>

brokerVars == <<jobs, queue, nextTicket, claimed, submitted>>
workerVars == <<wpc, wjob, wargs, wsub, werr, worig, disk, cwd>>
selectVars == <<spc, selIn, selOut>>
segmentVars == <<segpc, segIn, segOut>>
downloadVars == <<dpc, attempt, dlog>>
captionVars == <<cpc, capIn, capOut>>
chunkVars == <<kpc, kIn, krun, ki, kprev, klines, kfirst>>
eventVars == <<epc, eIn, eOut>>
detectVars == <<fpc, fIn, fOut>>
scriptVars == <<chunkVars, eventVars, detectVars>>
libVars == <<selectVars, segmentVars, downloadVars, captionVars, scriptVars>>

\* ---------------------------------------------------------- submission forms
\* request.form of POST /api/transcribe_opus; an absent field and an empty
\* one are both falsy, so <<>> and 0 stand for both
NoNumbers ==
    [clip_duration |-> <<>>, timeframe_start |-> <<>>, timeframe_end |-> <<>>,
     min_clip_length |-> <<>>, max_clip_length |-> <<>>, target_clip_length |-> <<>>]

AllNumbers ==
    [clip_duration |-> <<"4", "5">>, timeframe_start |-> <<"5">>,
     timeframe_end |-> <<"5", "0">>, min_clip_length |-> <<"1", "0">>,
     max_clip_length |-> <<"2", "0">>, target_clip_length |-> <<"1", "5">>]

NumericFields ==
    {"clip_duration", "timeframe_start", "timeframe_end",
     "min_clip_length", "max_clip_length", "target_clip_length"}

MkForm(id, yt, vid, tpl, lay, nums) ==
    [job_id |-> id, youtube_url |-> yt, video_url |-> vid, opus_template |-> tpl,
     layout |-> lay, numbers |-> nums]

\* a submission with youtube_url and nothing optional, and one with video_url,
\* a layout and every number
GoodForms ==
    { MkForm(id, "y", "", <<"{", "n", "}">>, NoneV, NoNumbers) : id \in JobIds }
    \cup { MkForm(id, "", "v", <<"{", "}">>, "auto", AllNumbers) : id \in JobIds }

BadForms ==
    {MkForm(0, "y", "", <<"{", "n", "}">>, NoneV, NoNumbers),
     MkForm(1, "", "", <<"{", "n", "}">>, NoneV, NoNumbers),
     MkForm(1, "y", "", <<>>, NoneV, AllNumbers),
     MkForm(1, "", "v", <<"{">>, "auto", NoNumbers),
     MkForm(1, "y", "v", <<"{", "n">>, "auto", AllNumbers),
     MkForm(1, "y", "", <<"{", "}">>, NoneV, [NoNumbers EXCEPT !.clip_duration = <<"x">>]),
     MkForm(1, "y", "", <<"{", "}">>, NoneV,
            [NoNumbers EXCEPT !.timeframe_start = <<"5", ".", "0">>]),
     MkForm(1, "y", "", <<"{", "}">>, NoneV, [AllNumbers EXCEPT !.timeframe_end = <<"-">>]),
     MkForm(1, "y", "", <<"{", "}">>, NoneV,
            [NoNumbers EXCEPT !.min_clip_length = <<"1", "x">>]),
     MkForm(1, "y", "", <<"{", "}">>, NoneV,
            [AllNumbers EXCEPT !.max_clip_length = <<"x", "0">>]),
     MkForm(1, "y", "", <<"{", "}">>, NoneV,
            [NoNumbers EXCEPT !.target_clip_length = <<"+">>])}

Forms == GoodForms \cup BadForms

\* ------------------------------------------------------------- broker records
NoArgs == [youtube_url |-> "", opus_template |-> "", clip_duration |-> 0, layout |-> ""]
NoMeta == [percentage |-> -1, stage |-> "unset"]
NoJob == [status |-> "absent", args |-> NoArgs, meta |-> NoMeta,
          result |-> NoneV, exc_info |-> NoneV]

NoSub == [timeframe_start |-> -1, timeframe_end |-> -1, min_clip_length |-> 0,
          max_clip_length |-> 0, target_clip_length |-> 0]

NoCall == [youtube_url |-> "", opus_template |-> "", clip_duration |-> 0,
           layout_mode |-> "", timeframe_start |-> -1, timeframe_end |-> -1,
           min_clip_length |-> 0, max_clip_length |-> 0, target_clip_length |-> 0]

NoForm == MkForm(0, "", "", <<>>, NoneV, NoNumbers)

\* history: the response keeps the form it answers when the form is one of
\* BadForms
Kept(form) == IF form \in BadForms THEN form ELSE NoForm

NoResponse ==
    [kind |-> "none", code |-> 0, job_id |-> 0, status |-> "", known |-> FALSE,
     form |-> NoForm]

\* ------------------------------------------------- control API: submission
\* create_job_endpoint catching json.JSONDecodeError only: a ValueError of
\* int() is not a validation failure
CreateJobCheckJsonOnly(form) ==
    IF form.job_id = 0 THEN 400
    ELSE IF form.youtube_url = "" /\ form.video_url = "" THEN 400
    ELSE IF form.opus_template = <<>> THEN 400
    ELSE IF ~JsonValid(form.opus_template) THEN 400
    ELSE IF \E f \in NumericFields : ~ParseOk(form.numbers[f]) THEN 500
    ELSE 200

\* create_job_endpoint, the checks before the enqueue: the status code they
\* answer with (200: go on to enqueue)
CreateJobCheck(form) ==
    IF form.job_id = 0 THEN 400
    ELSE IF form.youtube_url = "" /\ form.video_url = "" THEN 400
    ELSE IF form.opus_template = <<>> THEN 400
    ELSE IF ~JsonValid(form.opus_template) THEN 400
    ELSE IF \E f \in NumericFields : ~ParseOk(form.numbers[f]) THEN 400
    ELSE 200

\* the keyword arguments create_job_endpoint passes to enqueue_processing_job
Kwargs(form) ==
    [job_id |-> form.job_id,
     youtube_url |-> IF form.youtube_url # "" THEN form.youtube_url ELSE form.video_url,
     opus_template |-> JsonLoads(form.opus_template),
     clip_duration |-> ParseOr(form.numbers.clip_duration, DefaultClipDuration),
     layout |-> IF form.layout = NoneV THEN "fit" ELSE form.layout,
     timeframe_start |-> ParseOrNone(form.numbers.timeframe_start),
     timeframe_end |-> ParseOrNone(form.numbers.timeframe_end),
     min_clip_length |-> ParseOr(form.numbers.min_clip_length, DefaultMinClipLength),
     max_clip_length |-> ParseOr(form.numbers.max_clip_length, DefaultMaxClipLength),
     target_clip_length |->
         ParseOr(form.numbers.target_clip_length, DefaultTargetClipLength)]

\* history: the parameters the client gave besides the six the queue stores
Submitted(kw) ==
    [timeframe_start |-> kw.timeframe_start, timeframe_end |-> kw.timeframe_end,
     min_clip_length |-> kw.min_clip_length, max_clip_length |-> kw.max_clip_length,
     target_clip_length |-> kw.target_clip_length]

\* enqueue_processing_job: the positional args it hands to q.enqueue
EnqueueArgs(kw) ==
    [youtube_url |-> kw.youtube_url, opus_template |-> kw.opus_template,
     clip_duration |-> kw.clip_duration, layout |-> kw.layout]

\* q.enqueue(..., job_id=job_id): the job hash is written with status queued
\* and the new args whether or not the id exists (fields the new job does not
\* set, meta, result and exc_info, keep their stored value)
SaveJob(hash, args) == [hash EXCEPT !.status = "queued", !.args = args]

\* the id pushed at the head of the list (at_front)
PushJobIdFront(q, entry) == <<entry>> \o q

\* q.enqueue: the id goes to the tail of the list
PushJobId(q, entry) == Append(q, entry)

Submit ==
    \E form \in Forms :
       /\ nextTicket <= MaxEnqueues
       /\ IF CreateJobCheck(form) # 200
          THEN /\ response' = [kind |-> "submit", code |-> CreateJobCheck(form),
                               job_id |-> 0,
                               status |-> "", known |-> FALSE, form |-> Kept(form)]
               /\ UNCHANGED brokerVars
          ELSE LET kw == Kwargs(form) IN
               \/ /\ jobs' = [jobs EXCEPT ![kw.job_id] = SaveJob(@, EnqueueArgs(kw))]
                  /\ queue' = PushJobId(queue, [id |-> kw.job_id, n |-> nextTicket,
                                                 sub |-> Submitted(kw)])
                  /\ nextTicket' = nextTicket + 1
                  /\ submitted' = submitted \cup {kw.job_id}
                  /\ response' = [kind |-> "submit", code |-> 200, job_id |-> kw.job_id,
                                  status |-> "", known |-> FALSE, form |-> Kept(form)]
                  /\ UNCHANGED claimed
               \/ \* the broker call raises: "Failed to create job"
                  /\ response' = [kind |-> "submit", code |-> 500, job_id |-> 0,
                                  status |-> "", known |-> FALSE, form |-> Kept(form)]
                  /\ UNCHANGED brokerVars
       /\ UNCHANGED <<workerVars, clipVars, libVars>>

\* ------------------------------------------------------ control API: polling
PollIds == 1..(NumJobIds + 1)

Hash(id) == IF id \in JobIds THEN jobs[id] ELSE NoJob

\* get_job_status after a successful Job.fetch
JobView(job) ==
    IF job.status = "finished"
    THEN [raised |-> FALSE, status |-> "COMPLETED", progress |-> 100,
          stage |-> "Complete", traceback |-> NoneV, result |-> job.result]
    ELSE IF job.status = "failed"
    THEN [raised |-> FALSE, status |-> "FAILED",
          progress |-> IF job.meta = NoMeta THEN 0 ELSE job.meta.percentage,
          stage |-> IF job.meta = NoMeta THEN "Failed" ELSE job.meta.stage,
          traceback |-> job.exc_info, result |-> NoneV]
    ELSE [raised |-> FALSE, status |-> "PROCESSING",
          progress |-> IF job.meta = NoMeta THEN 0 ELSE job.meta.percentage,
          stage |-> IF job.meta = NoMeta THEN "Queued" ELSE job.meta.stage,
          traceback |-> NoneV, result |-> NoneV]

NotFound ==
    [raised |-> FALSE, status |-> "not_found", progress |-> 0, stage |-> "",
     traceback |-> NoneV, result |-> NoneV]

FetchRaised ==
    [raised |-> TRUE, status |-> "", progress |-> 0, stage |-> "",
     traceback |-> NoneV, result |-> NoneV]

\* get_job_status without the try around Job.fetch: NoSuchJobError escapes
GetJobStatusUnguarded(id) ==
    IF Hash(id).status = "absent" THEN FetchRaised ELSE JobView(Hash(id))

\* get_job_status; raised says that the call raised instead of returning
GetJobStatus(id) ==
    IF Hash(id).status = "absent" THEN NotFound ELSE JobView(Hash(id))

\* get_job_status_endpoint: jsonify({"job": status}); an exception escaping
\* the view is Flask's 500
Poll ==
    \E id \in PollIds :
       LET body == GetJobStatus(id) IN
       /\ response' = [kind |-> "poll", code |-> IF body.raised THEN 500 ELSE 200,
                       job_id |-> id, status |-> body.status,
                       known |-> id \in submitted, form |-> NoForm]
       /\ UNCHANGED <<brokerVars, workerVars, clipVars, libVars>>

\* ------------------------------------------------------------------ worker
\* run_opus_transcription(*args): the six queued args bind the first six
\* parameters, every other parameter takes its default
CallArgs(args) ==
    [youtube_url |-> args.youtube_url, opus_template |-> args.opus_template,
     clip_duration |-> args.clip_duration, layout_mode |-> args.layout,
     timeframe_start |-> -1, timeframe_end |-> -1,
     min_clip_length |-> DefaultMinClipLength,
     max_clip_length |-> DefaultMaxClipLength,
     target_clip_length |-> DefaultTargetClipLength]

\* update_job_progress: job.meta['progress'] = ...; job.save_meta()
UpdateProgress(hash, pct, stage) ==
    [hash EXCEPT !.meta = [percentage |-> pct, stage |-> stage]]

\* the outer except of run_opus_transcription, then the worker's handling of
\* the re-raised exception: status failed, exc_info the traceback
HandlerFail(hash) ==
    [hash EXCEPT !.meta = [percentage |-> 100, stage |-> "Failed"],
                 !.status = "failed", !.exc_info = "traceback"]

\* the worker's handling of an exception raised outside the try
WorkerFail(hash) == [hash EXCEPT !.status = "failed", !.exc_info = "traceback"]

\* the worker's handling of a returned result
WorkerSucceed(hash, clips) == [hash EXCEPT !.status = "finished", !.result = clips]

\* what shutil.rmtree(temp_dir) removes
\* the positions of run_opus_transcription at which it waits in
\* subprocess.run for a child process: yt-dlp, ffmpeg (audio), ffmpeg (burn),
\* ffmpeg (copy without subtitles), ffprobe
ChildStages == {"download", "extract", "burn", "fallback", "probe"}

\* the timeout argument of a subprocess.run call that has none
NoTimeout == -1

\* the timeout argument of the subprocess.run call of a stage
ChildTimeout(stage) == IF stage = "download" THEN DownloadTimeout ELSE NoTimeout

TempDirFiles == {"temp_dir", "audio", "ass"}

\* worker.work(): take the head of the list, mark the job started, call it
Claim ==
    /\ wpc = "idle"
    /\ queue # <<>>
    /\ LET entry == Head(queue) IN
       /\ queue' = Tail(queue)
       /\ jobs' = [jobs EXCEPT ![entry.id].status = "started"]
       /\ claimed' = claimed \cup {entry.n}
       /\ wjob' = entry.id
       /\ wargs' = CallArgs(jobs[entry.id].args)
       /\ wsub' = entry.sub
    /\ wpc' = "start"
    /\ werr' = FALSE
    /\ UNCHANGED <<nextTicket, submitted, response, worig, disk, cwd, clipVars, libVars>>

Advance(pct, stage, next) ==
    /\ jobs' = [jobs EXCEPT ![wjob] = UpdateProgress(@, pct, stage)]
    /\ wpc' = next
    /\ UNCHANGED <<queue, nextTicket, claimed, submitted, response, wjob, wargs, wsub,
                   clipVars, libVars>>

\* an exception reaches the outer except: record, re-raise, rmtree in finally
Abort(left) ==
    /\ jobs' = [jobs EXCEPT ![wjob] = HandlerFail(@)]
    /\ wpc' = "idle"
    /\ werr' = TRUE
    /\ disk' = left \ TempDirFiles
    /\ UNCHANGED <<queue, nextTicket, claimed, submitted, response, wjob, wargs, wsub,
                   clipVars, libVars>>

StartJob ==
    /\ wpc = "start"
    /\ \/ /\ Advance(5, "Downloading", "download")
          /\ disk' = disk \cup {"temp_dir"}
          /\ UNCHANGED werr
       \/ \* tempfile.mkdtemp raises, before the try
          /\ jobs' = [jobs EXCEPT ![wjob] = WorkerFail(@)]
          /\ wpc' = "idle"
          /\ werr' = TRUE
          /\ UNCHANGED <<queue, nextTicket, claimed, submitted, response,
                         wjob, wargs, wsub, disk, clipVars, libVars>>
    /\ UNCHANGED <<worig, cwd>>

Download ==
    /\ wpc = "download"
    /\ \/ Advance(15, "Download Complete", "p15") /\ UNCHANGED <<werr, disk>>
       \/ Abort(disk)
    /\ UNCHANGED <<worig, cwd>>

BeginExtract ==
    /\ wpc = "p15"
    /\ Advance(20, "Audio Extraction", "extract")
    /\ UNCHANGED <<werr, worig, disk, cwd>>

Extract ==
    /\ wpc = "extract"
    /\ \/ /\ Advance(30, "Audio Extraction Complete", "p30")
          /\ disk' = disk \cup {"audio"}
          /\ UNCHANGED werr
       \/ Abort(disk)
    /\ UNCHANGED <<worig, cwd>>

BeginTranscribe ==
    /\ wpc = "p30"
    /\ Advance(35, "Transcription", "transcribe")
    /\ UNCHANGED <<werr, worig, disk, cwd>>

Transcribe ==
    /\ wpc = "transcribe"
    /\ \/ Advance(60, "Transcription Complete", "p60") /\ UNCHANGED <<werr, disk>>
       \/ Abort(disk)
    /\ UNCHANGED <<worig, cwd>>

\* layout_mode != "auto": the layout stage runs; else straight to subtitles
AfterTranscribe ==
    /\ wpc = "p60"
    /\ IF wargs.layout_mode # "auto"
       THEN Advance(45, "Video Layout Processing", "layout")
       ELSE Advance(65, "Subtitle Generation", "subgen")
    /\ UNCHANGED <<werr, worig, disk, cwd>>

Layout ==
    /\ wpc = "layout"
    /\ \/ Advance(55, "Video Layout Complete", "p55") /\ UNCHANGED <<werr, disk>>
       \/ Abort(disk)
    /\ UNCHANGED <<worig, cwd>>

BeginSubtitles ==
    /\ wpc = "p55"
    /\ Advance(65, "Subtitle Generation", "subgen")
    /\ UNCHANGED <<werr, worig, disk, cwd>>

\* generate_karaoke_captions and the write of opus_subtitles.ass
Subtitles ==
    /\ wpc = "subgen"
    /\ \/ /\ Advance(70, "Subtitle Generation Complete", "setup")
          /\ disk' = disk \cup {"ass"}
          /\ UNCHANGED werr
       \/ Abort(disk)
    /\ UNCHANGED <<worig, cwd>>

\* copy of the script into exports_dir, original_cwd = getcwd(), chdir; an
\* exception of this block is re-raised to the outer except, which restores
\* nothing
BurnSetup ==
    /\ wpc = "setup"
    /\ \/ /\ Advance(75, "Video Processing", "burn")
          /\ disk' = disk \cup {"simple_ass"}
          /\ worig' = cwd
          /\ cwd' = "exports"
          /\ UNCHANGED werr
       \/ \* makedirs or copy2 raises
          Abort(disk) /\ UNCHANGED <<worig, cwd>>
       \/ \* chdir raises
          Abort(disk \cup {"simple_ass"}) /\ worig' = cwd /\ UNCHANGED cwd
       \/ \* the progress update after chdir raises
          Abort(disk \cup {"simple_ass"}) /\ worig' = cwd /\ cwd' = "exports"

\* the finally of the burn: chdir(original_cwd), remove the copied script
BurnFinally(files) == files \ {"simple_ass"}

Burn ==
    /\ wpc = "burn"
    /\ \/ /\ Advance(85, "Video Processing Complete", "p85")
          /\ disk' = BurnFinally(disk)
          /\ cwd' = worig
          /\ UNCHANGED werr
       \/ \* CalledProcessError, not a full disk: copy without subtitles
          /\ wpc' = "fallback"
          /\ werr' = TRUE
          /\ UNCHANGED <<brokerVars, response, wjob, wargs, wsub, disk, cwd, clipVars, libVars>>
       \/ \* full disk (RuntimeError), or the output file never appears
          Abort(BurnFinally(disk)) /\ cwd' = worig
    /\ UNCHANGED worig

Fallback ==
    /\ wpc = "fallback"
    /\ \/ /\ Advance(85, "Video Processing Complete", "p85")
          /\ disk' = BurnFinally(disk)
          /\ UNCHANGED werr
       \/ Abort(BurnFinally(disk))
    /\ cwd' = worig
    /\ UNCHANGED worig

BeginFinalize ==
    /\ wpc = "p85"
    /\ Advance(95, "Finalizing", "probe")
    /\ UNCHANGED <<werr, worig, disk, cwd>>

\* ffprobe of the export, update to 100, return clips_data, rmtree in finally
Finalize ==
    /\ wpc = "probe"
    /\ \/ /\ jobs' = [jobs EXCEPT ![wjob] =
                        WorkerSucceed(UpdateProgress(@, 100, "Complete"), "clips")]
          /\ wpc' = "idle"
          /\ disk' = disk \ TempDirFiles
          /\ UNCHANGED <<queue, nextTicket, claimed, submitted, response,
                         wjob, wargs, wsub, werr, clipVars, libVars>>
       \/ Abort(disk)
    /\ UNCHANGED <<worig, cwd>>

\* ------------------------------------------------------- clip generator
\* complete_viral_clip_generator.py.  The module never binds the name
\* download_youtube_video; job_id is a global that only the command line
\* binds (to None or to --job-id), so for a call of _generate_complete_clips
\* the binding of job_id is an input.
ClipIds == 1..MaxClips

\* the value of gn while viral_clips has not been assigned
NoSelection == -1

ClipFiles(i) == {<<"segment", i>>, <<"layout", i>>, <<"captions", i>>, <<"simple_ass", 0>>}

\* the loop of _generate_complete_clips after the except clause of a clip:
\* `continue`
AfterClipErrorBreak(i, n) == n + 1

AfterClipError(i, n) == i + 1

\* the line _process_complete_clip prints when a stage reports its failure
\* (ffmpeg's exit code, or the stage's own except clause)
StageMessage(stage) ==
    CASE stage = "cutting" -> "Segment extraction failed"
      [] stage = "reframing" -> "Layout processing failed"
      [] stage = "compiling" -> "Caption generation failed"
      [] stage = "burning" -> "Caption burning failed"
      [] OTHER -> "Error generating clip"

\* the clip whose processing returned False or raised, at the given stage
\* and with the given line printed: nothing is appended
ClipFailedWith(stage, message) ==
    /\ gfail' = [gfail EXCEPT ![gidx] = stage]
    /\ glog' = [glog EXCEPT ![gidx] = message]
    /\ gidx' = AfterClipError(gidx, gn)
    /\ gpc' = "name"
    /\ UNCHANGED <<gjob, gn, gresult, gdone, gstatus, gexit>>

ClipFailed(stage) == ClipFailedWith(stage, StageMessage(stage))

\* the value of gexit while the process runs
NotExited == -1

\* __main__ catches every exception and never calls sys.exit: the script
\* runs off its end
ScriptEndExitCode == 0

\* __main__: update_status("processing"), the constructor, makedirs, and
\* tempfile.mkdtemp(prefix="viral_clips_") in _download_and_transcribe_real
CliStart ==
    /\ gpc = "cli"
    /\ gpc' = "cli_download"
    /\ gstatus' = IF gjob = "id" THEN "processing" ELSE gstatus
    /\ UNCHANGED <<gexit, glog>>
    /\ gdisk' = gdisk \cup {<<"temp_dir", 0>>}
    /\ UNCHANGED <<gjob, gn, gidx, gresult, gtried, gdone, gfail, gcwd, gorig>>
    /\ UNCHANGED <<brokerVars, workerVars, response, libVars>>

\* download_youtube_video(video_url, temp_dir) raises NameError; the except
\* of _download_and_transcribe_real returns None, generate_complete_viral_clips
\* raises, __main__ writes status "error" and the script ends
CliDownload ==
    /\ gpc = "cli_download"
    /\ gpc' = "exited"
    /\ gstatus' = IF gjob = "id" THEN "error" ELSE gstatus
    /\ gexit' = ScriptEndExitCode
    /\ UNCHANGED glog
    /\ UNCHANGED <<gjob, gn, gidx, gresult, gtried, gdone, gfail, gdisk, gcwd, gorig>>
    /\ UNCHANGED <<brokerVars, workerVars, response, libVars>>

\* loop body up to the call of _process_complete_clip: timestamps, file name
NameClip ==
    /\ gpc = "name"
    /\ gidx <= gn
    /\ gtried' = gtried \cup {gidx}
    /\ IF gjob = "unbound"
       THEN ClipFailed("naming")
       ELSE /\ gpc' = "cut"
            /\ UNCHANGED <<gjob, gn, gidx, gresult, gdone, gfail, gstatus, gexit, glog>>
    /\ UNCHANGED <<gdisk, gcwd, gorig>>
    /\ UNCHANGED <<brokerVars, workerVars, response, libVars>>

\* the line of the outer except clause of _process_complete_clip
OuterExceptMessage == "Complete clip processing error"

\* step 1: ffmpeg extracts the segment
CutClip ==
    /\ gpc = "cut"
    /\ \/ /\ gpc' = "reframe"
          /\ gdisk' = gdisk \cup {<<"segment", gidx>>}
          /\ UNCHANGED <<gjob, gn, gidx, gresult, gdone, gfail, gstatus, gexit, glog>>
       \/ \* ffmpeg returned a non-zero code or left no file
          ClipFailed("cutting") /\ UNCHANGED gdisk
       \/ \* subprocess.run raised (no ffmpeg on the PATH): step 1 has no
          \* except clause of its own, the outer one returns False
          ClipFailedWith("cutting", OuterExceptMessage) /\ UNCHANGED gdisk
    /\ UNCHANGED <<gtried, gcwd, gorig>>
    /\ UNCHANGED <<brokerVars, workerVars, response, libVars>>

\* step 2: process_video_for_vertical
ReframeClip ==
    /\ gpc = "reframe"
    /\ \/ /\ gpc' = "compile"
          /\ gdisk' = gdisk \cup {<<"layout", gidx>>}
          /\ UNCHANGED <<gjob, gn, gidx, gresult, gdone, gfail, gstatus, gexit, glog>>
       \/ ClipFailed("reframing") /\ UNCHANGED gdisk
    /\ UNCHANGED <<gtried, gcwd, gorig>>
    /\ UNCHANGED <<brokerVars, workerVars, response, libVars>>

\* step 3: generate_karaoke_captions, the script and its debug copy
CompileClip ==
    /\ gpc = "compile"
    /\ \/ /\ gpc' = "burn_setup"
          /\ gdisk' = gdisk \cup {<<"captions", gidx>>, <<"debug_ass", 0>>}
          /\ UNCHANGED <<gjob, gn, gidx, gresult, gdone, gfail, gstatus, gexit, glog>>
       \/ ClipFailed("compiling") /\ UNCHANGED gdisk
    /\ UNCHANGED <<gtried, gcwd, gorig>>
    /\ UNCHANGED <<brokerVars, workerVars, response, libVars>>

\* step 4, up to the ffmpeg call: original_cwd, chdir(temp_dir), captions.ass
BurnSetupClip ==
    /\ gpc = "burn_setup"
    /\ \/ /\ gpc' = "burn"
          /\ gorig' = gcwd
          /\ gcwd' = "temp_dir"
          /\ gdisk' = gdisk \cup {<<"simple_ass", 0>>}
          /\ UNCHANGED <<gjob, gn, gidx, gresult, gdone, gfail, gstatus, gexit, glog>>
       \/ \* makedirs of the output directory raises, before the chdir
          ClipFailed("burning") /\ UNCHANGED <<gdisk, gcwd, gorig>>
    /\ UNCHANGED gtried
    /\ UNCHANGED <<brokerVars, workerVars, response, libVars>>

\* step 4, the ffmpeg call and after: chdir back; on success the clip's
\* temporary files are removed and the clip is appended to generated_clips
BurnClip ==
    /\ gpc = "burn"
    /\ gcwd' = gorig
    /\ \/ /\ gdisk' = gdisk \ ClipFiles(gidx)
          /\ gdone' = gdone \cup {gidx}
          /\ gresult' = Append(gresult, gidx)
          /\ gidx' = gidx + 1
          /\ gpc' = "name"
          /\ UNCHANGED <<gjob, gn, gfail, gstatus, gexit, glog>>
       \/ ClipFailed("burning") /\ UNCHANGED gdisk
    /\ UNCHANGED <<gtried, gorig>>
    /\ UNCHANGED <<brokerVars, workerVars, response, libVars>>

\* generate_complete_viral_clips after _find_viral_moments: an empty selection
\* returns [] at once, otherwise _generate_complete_clips starts its loop
BeginClips ==
    /\ gpc = "selected"
    /\ IF gn = 0
       THEN gpc' = "returned" /\ UNCHANGED gidx
       ELSE gpc' = "name" /\ gidx' = 1
    /\ UNCHANGED <<gjob, gn, gresult, gtried, gdone, gfail, gdisk, gcwd, gorig,
                   gstatus, gexit, glog>>
    /\ UNCHANGED <<brokerVars, workerVars, response, libVars>>

\* __main__ on the list the generator returned: `if clips:` writes status
\* "completed", otherwise status "error"
MainStatusCompleted(clips) == "completed"

MainStatus(clips) == IF clips # <<>> THEN "completed" ELSE "error"

\* __main__ after generate_complete_viral_clips_standalone returned; the
\* status file is written only when --job-id was given; the script ends
MainFinish ==
    /\ gpc = "returned"
    /\ gjob # "unbound"
    /\ gpc' = "exited"
    /\ gstatus' = IF gjob = "id" THEN MainStatus(gresult) ELSE gstatus
    /\ gexit' = ScriptEndExitCode
    /\ UNCHANGED glog
    /\ UNCHANGED <<gjob, gn, gidx, gresult, gtried, gdone, gfail, gdisk, gcwd, gorig>>
    /\ UNCHANGED <<brokerVars, workerVars, response, libVars>>

\* the loop is over: return generated_clips
ReturnClips ==
    /\ gpc = "name"
    /\ gidx > gn
    /\ gpc' = "returned"
    /\ UNCHANGED <<gjob, gn, gidx, gresult, gtried, gdone, gfail, gdisk, gcwd, gorig,
                   gstatus, gexit, glog>>
    /\ UNCHANGED <<brokerVars, workerVars, response, libVars>>

\* ------------------------------------------------------------- download
\* frontend/src/python_scripts/video_processor.py, process_video: the yt-dlp
\* retry loop.  dlog is the history of the loop: an entry per attempt, per
\* result of an attempt and per time.sleep.
max_retries == 3
retry_delay_seconds == 3

\* n is the number of the attempt or the seconds slept
Event(ev, n) == [ev |-> ev, n |-> n]

\* what one attempt can end in: the file is there; exit code 0 without the
\* file; a non-zero exit code; a non-zero exit code with "WinError 32" in
\* stderr; process.wait timed out and the child was killed; an exception in
\* the attempt (Popen, listdir)
AttemptResults == {"ok", "no_file", "failed", "file_lock", "timeout", "exception"}

\* the results after which the code sleeps before it continues the loop
SleepsAfter(result) == result \in {"file_lock", "exception"}

\* top of the for loop: Popen of yt-dlp
DlAttempt ==
    /\ dpc = "loop"
    /\ attempt < max_retries
    /\ dpc' = "wait"
    /\ dlog' = Append(dlog, Event("attempt", attempt + 1))
    /\ UNCHANGED attempt
    /\ UNCHANGED <<brokerVars, workerVars, response, clipVars, selectVars, segmentVars,
                   captionVars, scriptVars>>

\* process.wait and the handling of its result, to the end of the loop body
DlResult ==
    /\ dpc = "wait"
    /\ \E result \in AttemptResults :
          IF result = "ok"
          THEN /\ dpc' = "downloaded"
               /\ dlog' = Append(dlog, Event(result, 0))
               /\ UNCHANGED attempt
          ELSE /\ dpc' = "loop"
               /\ attempt' = attempt + 1
               /\ dlog' = IF SleepsAfter(result) /\ attempt < max_retries - 1
                          THEN dlog \o <<Event(result, 0),
                                         Event("sleep", retry_delay_seconds)>>
                          ELSE Append(dlog, Event(result, 0))
    /\ UNCHANGED <<brokerVars, workerVars, response, clipVars, selectVars, segmentVars,
                   captionVars, scriptVars>>

\* after the loop: `if not download_success: raise`; the handler of
\* process_video puts a GLOBAL_ERROR entry in clips_data
DlGiveUp ==
    /\ dpc = "loop"
    /\ attempt = max_retries
    /\ dpc' = "raised"
    /\ UNCHANGED <<attempt, dlog>>
    /\ UNCHANGED <<brokerVars, workerVars, response, clipVars, selectVars, segmentVars,
                   captionVars, scriptVars>>

\* ------------------------------------------------------ variable chunking
\* opus_processor.py, chunk_words_variable, as generate_karaoke_captions
\* calls it for a template with random_chunking.  The words themselves do not
\* matter to the line sizes, only their number n.  The same input is
\* compiled twice, one compilation after the other.

\* the values random.choices draws from: weights = [(3, .5), (2, .4), (1, .1)]
SizeChoices == {3, 2, 1}

\* prev_size = None
NonePrevSize == 0

\* if prev_size == 1 and size == 1: size = 2
AvoidRepeatedOne(prev_size, size) == IF prev_size = 1 /\ size = 1 THEN 2 ELSE size

\* size = max(min_w, min(max_w, size))
ClampSize(min_w, max_w, size) ==
    LET capped == IF max_w < size THEN max_w ELSE size
    IN IF min_w > capped THEN min_w ELSE capped

\* len(all_words[i:i + size]) for a list of n words
SliceLen(n, i, size) == IF i + size <= n THEN size ELSE n - i

NoChunkCall == [n |-> 0, min_w |-> 0, max_w |-> 0]

ChunkCalls ==
    {c \in [n : 0..MaxChunkWords, min_w : 1..MaxLineWords, max_w : 1..MaxLineWords] :
        c.min_w <= c.max_w}

\* one pass of the while loop: random.choices is the module's generator,
\* which the renderer neither seeds nor takes as an argument, so the value
\* drawn is any of the choices
ChunkStep ==
    /\ kpc = "chunk"
    /\ ki < kIn.n
    /\ \E drawn \in SizeChoices :
          LET size == ClampSize(kIn.min_w, kIn.max_w, AvoidRepeatedOne(kprev, drawn)) IN
          /\ klines' = Append(klines, SliceLen(kIn.n, ki, size))
          /\ ki' = ki + size
          /\ kprev' = size
    /\ UNCHANGED <<kpc, kIn, krun, kfirst>>
    /\ UNCHANGED <<brokerVars, workerVars, response, clipVars, selectVars, segmentVars,
                   downloadVars, captionVars, eventVars, detectVars>>

\* the loop is over: return chunks; the second compilation follows the first
ChunkReturn ==
    /\ kpc = "chunk"
    /\ ki >= kIn.n
    /\ IF krun = 1
       THEN /\ kfirst' = klines
            /\ krun' = 2
            /\ ki' = 0
            /\ kprev' = NonePrevSize
            /\ klines' = <<>>
            /\ UNCHANGED kpc
       ELSE /\ kpc' = "done"
            /\ UNCHANGED <<krun, ki, kprev, klines, kfirst>>
    /\ UNCHANGED kIn
    /\ UNCHANGED <<brokerVars, workerVars, response, clipVars, selectVars, segmentVars,
                   downloadVars, captionVars, eventVars, detectVars>>

\* -------------------------------------------------------- caption times
\* The way of a word's start time from the candidate window to the caption
\* script: VideoClip.to_dict writes the window's start as HH:MM:SS,
\* _generate_complete_clips parses it, _process_complete_clip subtracts it
\* from the word's start, and OpusProcessor.format_time writes the result.
\* Times are in milliseconds unless said otherwise.

\* VideoClip._format_timestamp: hours, minutes and int(seconds)
FormatTimestamp(ms) ==
    <<(ms \div 1000) \div 3600, ((ms \div 1000) % 3600) \div 60, (ms \div 1000) % 60>>

\* _parse_timestamp: seconds
ParseTimestamp(hms) == hms[1] * 3600 + hms[2] * 60 + hms[3]

\* word.start = word.start - start_time
AdjustWord(word_start, start_time) == word_start - 1000 * start_time

\* format_time: h:mm:ss.cc, the seconds rounded to hundredths by the format
\* 05.2f; cs holds the seconds and hundredths in hundredths
FormatTime(ms) ==
    [h |-> (ms \div 60000) \div 60,
     m |-> (ms \div 60000) % 60,
     cs |-> ((ms % 60000) + 5) \div 10]

\* the start time of each word's event in the caption script of a clip
CaptionTimes(call) ==
    [k \in 1..Len(call.words) |->
        FormatTime(AdjustWord(call.words[k],
                              ParseTimestamp(FormatTimestamp(call.start_time))))]

\* inputs: the start of the candidate window and the starts of its words
WindowStarts == {0, 12000, 12480, 59500, 3661250}
WordOffsets == {0, 4, 250, 1003, 47996}

NoCaptionCall == [start_time |-> 0, words |-> <<>>]

CaptionCalls ==
    {[start_time |-> s, words |-> [k \in 1..Len(offs) |-> s + offs[k]]] :
        s \in WindowStarts,
        offs \in UNION {[1..n -> WordOffsets] : n \in 1..MaxWords}}

\* step 3 of _process_complete_clip for one rendered clip
CompileCaptions ==
    /\ cpc = "call"
    /\ cpc' = "done"
    /\ capOut' = CaptionTimes(capIn)
    /\ UNCHANGED capIn
    /\ UNCHANGED <<brokerVars, workerVars, response, clipVars, selectVars, segmentVars,
                   downloadVars, scriptVars>>

\* -------------------------------------------------------- caption events
\* opus_processor.py, generate_karaoke_captions, the recipes of the templates
\* Karaoke (a highlighted word per event) and PodcastPro (a block per line in
\* the speaker's colour).  A word is [start, end] in ms; an event is its
\* Start and End fields as format_time writes them and the index of the word
\* it highlights, 0 when it highlights none.
KaraokeWordsPerLine == 6
PodcastWordsPerLine == 5

\* "If there's a gap > 0.3 seconds"
PodcastGapMs == 300

\* the word-timed input: each word lasts WordMs; the next word starts GapsMs
\* after it ended (before it ended when the timings overlap)
WordMs == 200
GapsMs == {-100, 0, 200, 400}

RECURSIVE WordsFrom(_, _)
WordsFrom(start, gaps) ==
    IF gaps = <<>>
    THEN <<[start |-> start, end |-> start + WordMs]>>
    ELSE <<[start |-> start, end |-> start + WordMs]>>
         \o WordsFrom(start + WordMs + Head(gaps), Tail(gaps))

EventCalls ==
    {WordsFrom(0, gaps) : gaps \in UNION {[1..n -> GapsMs] : n \in 0..MaxGaps}}

\* chunk_words: all_words[i:i + chunk_size] for i in range(0, len, chunk_size);
\* a chunk is the indices of its words
ChunkWords(n, chunk_size) ==
    [c \in 1..((n + chunk_size - 1) \div chunk_size) |->
        [k \in 1..(IF c * chunk_size <= n THEN chunk_size ELSE n - (c - 1) * chunk_size)
            |-> (c - 1) * chunk_size + k]]

AssEvent(start, end, active) ==
    [start |-> FormatTime(start), end |-> FormatTime(end), active |-> active]

RECURSIVE Flatten(_)
Flatten(seqs) == IF seqs = <<>> THEN <<>> ELSE Head(seqs) \o Flatten(Tail(seqs))

\* the gap events of a chunk from its i-th word on: "only if there's
\* actually a gap"
RECURSIVE GapEvents(_, _, _)
GapEvents(words, chunk, i) ==
    IF i >= Len(chunk) THEN <<>>
    ELSE (IF words[chunk[i + 1]].start > words[chunk[i]].end
          THEN <<AssEvent(words[chunk[i]].end, words[chunk[i + 1]].start, 0)>>
          ELSE <<>>)
         \o GapEvents(words, chunk, i + 1)

\* template Karaoke: per chunk an event for each word, from the word's start
\* to its end with this word highlighted, then the gap events of the chunk
KaraokeEvents(words) ==
    LET chunks == ChunkWords(Len(words), KaraokeWordsPerLine) IN
    Flatten([c \in 1..Len(chunks) |->
               [i \in 1..Len(chunks[c]) |->
                   AssEvent(words[chunks[c][i]].start, words[chunks[c][i]].end,
                            chunks[c][i])]
               \o GapEvents(words, chunks[c], 1)])

\* "Fix timing gaps": start_time_seconds of the line's event
PodcastLineStart(words, chunks, c) ==
    LET first == words[chunks[c][1]].start
        prev_end == IF c > 1 THEN words[chunks[c - 1][Len(chunks[c - 1])]].end ELSE first
    IN IF c > 1 /\ first - prev_end > PodcastGapMs THEN prev_end ELSE first

\* template PodcastPro: an event per line, to the end of its last word
PodcastEvents(words) ==
    LET chunks == ChunkWords(Len(words), PodcastWordsPerLine) IN
    [c \in 1..Len(chunks) |->
        AssEvent(PodcastLineStart(words, chunks, c),
                 words[chunks[c][Len(chunks[c])]].end, 0)]

CompileKaraoke ==
    /\ epc = "call"
    /\ epc' = "karaoke"
    /\ eOut' = KaraokeEvents(eIn)
    /\ UNCHANGED eIn
    /\ UNCHANGED <<brokerVars, workerVars, response, clipVars, selectVars, segmentVars,
                   downloadVars, captionVars, chunkVars, detectVars>>

CompilePodcast ==
    /\ epc = "call"
    /\ epc' = "podcast"
    /\ eOut' = PodcastEvents(eIn)
    /\ UNCHANGED eIn
    /\ UNCHANGED <<brokerVars, workerVars, response, clipVars, selectVars, segmentVars,
                   downloadVars, captionVars, chunkVars, detectVars>>

\* ------------------------------------------------------------ detection
\* face_detection.py, FaceDetector.detect_face_center, and
\* speaker_detection.py, SpeakerDetector.determine_active_speaker.  The
\* video and the audio are inputs: whether the video opens, how many frames
\* can be read, what MediaPipe does with the sampled frame; whether librosa
\* loads the audio, whether the segment is empty, its energy and centroid.
Raised == [raised |-> TRUE, value |-> "exception"]

Returned(value) == [raised |-> FALSE, value |-> value]

NoDetectCall == [op |-> "none"]

NoDetectResult == [raised |-> FALSE, value |-> "none"]

FaceCalls ==
    [op : {"face"}, opened : BOOLEAN, frames : 0..MaxFrames,
     detect : {"none", "face", "raises"}, face : {<<200, 300>>, <<800, 300>>},
     w : {640, 1080}, h : {720}]

VoiceCalls ==
    [op : {"voice"}, load : {"ok", "raises"}, empty : BOOLEAN,
     centroid : {1000, 2000}, energy : 0..MaxEnergy]

\* return (w // 2, h // 2)
FrameCenter(call) == <<call.w \div 2, call.h \div 2>>

\* detect_face_center: no except clause anywhere; the try around the loop
\* has only a finally.  One face is detected at most, so the averaged centre
\* of the similar faces is that face's centre
DetectFaceCenter(call) ==
    IF ~call.opened THEN Raised
    ELSE IF call.frames > 0 /\ call.detect = "raises" THEN Raised
    ELSE IF call.frames > 0 /\ call.detect = "face" THEN Returned(call.face)
    ELSE IF call.frames > 0 THEN Returned(FrameCenter(call))
    ELSE Raised

\* detect_voice_activity, in hundredths: the except clause returns the
\* balanced default
DetectVoiceActivity(call) ==
    IF call.load = "raises" THEN [left |-> 50, right |-> 50]
    ELSE IF call.empty THEN [left |-> 0, right |-> 0]
    ELSE IF call.centroid < 1500
    THEN [left |-> call.energy * 150, right |-> call.energy * 70]
    ELSE [left |-> call.energy * 70, right |-> call.energy * 150]

\* determine_active_speaker: the 10 % threshold; similar activity is 'right'
DetermineActiveSpeaker(call) ==
    LET activity == DetectVoiceActivity(call) IN
    IF activity.left * 10 > activity.right * 11 THEN Returned("left")
    ELSE IF activity.right * 10 > activity.left * 11 THEN Returned("right")
    ELSE Returned("right")

FaceCenter ==
    /\ fpc = "call"
    /\ fIn.op = "face"
    /\ fpc' = "done"
    /\ fOut' = DetectFaceCenter(fIn)
    /\ UNCHANGED fIn
    /\ UNCHANGED <<brokerVars, workerVars, response, clipVars, selectVars, segmentVars,
                   downloadVars, captionVars, chunkVars, eventVars>>

VoiceWindow ==
    /\ fpc = "call"
    /\ fIn.op = "voice"
    /\ fpc' = "done"
    /\ fOut' = DetermineActiveSpeaker(fIn)
    /\ UNCHANGED fIn
    /\ UNCHANGED <<brokerVars, workerVars, response, clipVars, selectVars, segmentVars,
                   downloadVars, captionVars, chunkVars, eventVars>>

\* --------------------------------------------------------- segmentation
\* hook_detector.py segment_transcript.  A transcript segment is a record
\* [start_time, end_time, text]; times are in seconds, a text is a sequence
\* of characters, already stripped by parse_whisper_segments.
Abs(x) == IF x < 0 THEN 0 - x ELSE x

RECURSIVE LStrip(_)
LStrip(t) == IF t # <<>> /\ Head(t) = " " THEN LStrip(Tail(t)) ELSE t

RECURSIVE RStrip(_)
RStrip(t) ==
    IF t # <<>> /\ t[Len(t)] = " " THEN RStrip(SubSeq(t, 1, Len(t) - 1)) ELSE t

\* str.strip()
Strip(t) == RStrip(LStrip(t))

\* len(text.split())
WordCount(t) ==
    Cardinality({k \in 1..Len(t) : t[k] # " " /\ (k = 1 \/ t[k - 1] = " ")})

\* _is_sentence_boundary
IsSentenceBoundary(text) ==
    \/ Strip(text) # <<>> /\ Strip(text)[Len(Strip(text))] \in {".", "!", "?"}
    \/ WordCount(Strip(text)) > 10

\* sorted(transcript_segments, key=lambda x: x.start_time): stable, ascending
SortedByStart(segs) ==
    [p \in 1..Len(segs) |->
        segs[CHOOSE i \in 1..Len(segs) :
                p = 1 + Cardinality({j \in 1..Len(segs) :
                        \/ segs[j].start_time < segs[i].start_time
                        \/ segs[j].start_time = segs[i].start_time /\ j < i})]]

\* clip_text after the segments i..j were added: clip_text += " " + segment.text
RECURSIVE ClipText(_, _, _)
ClipText(segs, i, j) ==
    IF j < i THEN <<>> ELSE ClipText(segs, i, j - 1) \o <<" ">> \o segs[j].text

\* the inner while loop from segment j on, for the clip that starts at
\* segment i; best is the index of the segment that ends the best clip so
\* far (0 for best_clip_end is None); the result is the final best
RECURSIVE BestEndLoose(_, _, _, _, _)
BestEndLoose(segs, i, j, best, d) ==
    IF j > Len(segs) THEN best
    ELSE LET potential_duration == segs[j].end_time - segs[i].start_time
             closer ==
                \/ best = 0
                \/ Abs(potential_duration - d.target_length)
                     < Abs((segs[best].end_time - segs[i].start_time) - d.target_length)
         IN  IF potential_duration > d.max_length THEN best
             ELSE IF IsSentenceBoundary(segs[j].text)
             THEN IF potential_duration >= d.target_length
                  THEN IF closer THEN j ELSE best
                  ELSE BestEndLoose(segs, i, j + 1, IF closer THEN j ELSE best, d)
             ELSE BestEndLoose(segs, i, j + 1, best, d)

RECURSIVE BestEnd(_, _, _, _, _)
BestEnd(segs, i, j, best, d) ==
    IF j > Len(segs) THEN best
    ELSE LET potential_duration == segs[j].end_time - segs[i].start_time
             closer ==
                \/ best = 0
                \/ Abs(potential_duration - d.target_length)
                     < Abs((segs[best].end_time - segs[i].start_time) - d.target_length)
         IN  IF potential_duration > d.max_length THEN best
             ELSE IF potential_duration >= d.min_length
                     /\ IsSentenceBoundary(segs[j].text)
             THEN IF potential_duration >= d.target_length
                  THEN IF closer THEN j ELSE best
                  ELSE BestEnd(segs, i, j + 1, IF closer THEN j ELSE best, d)
             ELSE BestEnd(segs, i, j + 1, best, d)

\* VideoClip(...) for the segments i..best; first is history, the index of
\* the clip's first segment in the sorted transcript
MakeClip(segs, i, best) ==
    [start_time |-> segs[i].start_time,
     end_time |-> segs[best].end_time,
     duration |-> segs[best].end_time - segs[i].start_time,
     transcript |-> Strip(ClipText(segs, i, best)),
     segments |-> SubSeq(segs, i, best),
     first |-> i]

\* the outer while loop from segment i on
RECURSIVE ClipsFrom(_, _, _)
ClipsFrom(segs, i, d) ==
    IF i > Len(segs) THEN <<>>
    ELSE LET best == BestEnd(segs, i, i, 0, d)
             half == (best - i + 1) \div 2
         IN  IF best # 0
             THEN <<MakeClip(segs, i, best)>>
                    \o ClipsFrom(segs, i + (IF half > 1 THEN half ELSE 1), d)
             ELSE ClipsFrom(segs, i + 1, d)

SegmentTranscript(segs, d) == ClipsFrom(SortedByStart(segs), 1, d)

\* inputs: segments that follow one another, each 1 or 2 seconds long, with a
\* text that ends a sentence, one that does not, or one of eleven words
LongText == [k \in 1..21 |-> IF k % 2 = 1 THEN "w" ELSE " "]
Texts == {<<"a", ".">>, <<"b">>, LongText}
SegmentShapes == [len : {1, 2}, text : Texts]

RECURSIVE StartOf(_, _)
StartOf(shapes, k) == IF k = 1 THEN 0 ELSE StartOf(shapes, k - 1) + shapes[k - 1].len

Transcript(shapes) ==
    [k \in 1..Len(shapes) |->
        [start_time |-> StartOf(shapes, k),
         end_time |-> StartOf(shapes, k) + shapes[k].len,
         text |-> shapes[k].text]]

Detectors ==
    {[min_length |-> 2, target_length |-> 3, max_length |-> 4],
     [min_length |-> 1, target_length |-> 2, max_length |-> 5],
     [min_length |-> 3, target_length |-> 3, max_length |-> 3],
     [min_length |-> 4, target_length |-> 3, max_length |-> 2]}

NoSegmentCall == [segs |-> <<>>, detector |-> [min_length |-> 0, target_length |-> 0, max_length |-> 0]]

SegmentCalls ==
    {[segs |-> Transcript(shapes), detector |-> d] :
        shapes \in UNION {[1..n -> SegmentShapes] : n \in 0..MaxSegments},
        d \in Detectors}

\* one call of segment_transcript
Segment ==
    /\ segpc = "call"
    /\ segpc' = "done"
    /\ segOut' = SegmentTranscript(segIn.segs, segIn.detector)
    /\ UNCHANGED segIn
    /\ UNCHANGED <<brokerVars, workerVars, response, clipVars, selectVars, downloadVars,
                   captionVars, scriptVars>>

\* ------------------------------------------------------------- selector
\* hook_detector.py find_viral_clips and score_clips, and _find_viral_moments
\* of complete_viral_clip_generator.py.  A candidate is a record
\* [start, total]: start in milliseconds, total (viral_score) in units of
\* 0.0001 point.  Candidates come from segment_transcript in the order of
\* their start.
Min2(a, b) == IF a <= b THEN a ELSE b

\* place of element i in sorted(..., reverse=True) over the keys k: the sort
\* is stable, so equal keys keep their order
RankTiesLast(k, i) ==
    1 + Cardinality({j \in 1..Len(k) : k[j] > k[i] \/ (k[j] = k[i] /\ j > i)})

Rank(k, i) ==
    1 + Cardinality({j \in 1..Len(k) : k[j] > k[i] \/ (k[j] = k[i] /\ j < i)})

SortedDescOrder(k) ==
    [p \in 1..Len(k) |-> CHOOSE i \in 1..Len(k) : Rank(k, i) = p]

\* round(x, 3) on a total that is not half way between two thousandths
Round3(t) == IF t % 10 < 5 THEN t \div 10 ELSE t \div 10 + 1

\* VideoClip.to_dict: score rounded to thousandths, start_time as HH:MM:SS
\* (whole seconds); idx is history, the candidate the entry was made from
ToDict(c, i) == [idx |-> i, score |-> Round3(c.total), start_time |-> c.start \div 1000]

\* find_viral_clips: score_clips sorts by viral_score, then [:top_n], to_dict
FindViralClips(cands, top_n) ==
    LET order == SortedDescOrder([i \in 1..Len(cands) |-> cands[i].total])
    IN  [p \in 1..Min2(top_n, Len(cands)) |-> ToDict(cands[order[p]], order[p])]

AutomaticCeilingFlat(seconds) == 10

\* the if/elif chain on video_duration_minutes
AutomaticCeiling(seconds) ==
    IF seconds >= 20 * 60 THEN 10
    ELSE IF seconds >= 10 * 60 THEN 8
    ELSE IF seconds >= 5 * 60 THEN 5
    ELSE IF seconds >= 2 * 60 THEN 3
    ELSE 2

\* int(video_duration_seconds / ((min_length + max_length) / 2))
TheoreticalMax(seconds, min_length, max_length) ==
    (2 * seconds) \div (min_length + max_length)

SmartMax(seconds, min_length, max_length) ==
    Min2(AutomaticCeiling(seconds), TheoreticalMax(seconds, min_length, max_length))

\* _find_viral_moments; min_score is only printed
FindViralMoments(call) ==
    LET all == FindViralClips(call.cands, call.max_clips * 3)
        order == SortedDescOrder([i \in 1..Len(all) |-> all[i].score])
        count == Min2(Min2(call.max_clips,
                           SmartMax(call.seconds, call.min_length, call.max_length)),
                      Len(all))
    IN  [p \in 1..count |-> all[order[p]]]

\* _find_viral_moments of viral_clip_generator.py (ViralClipGenerator): the
\* clips of find_viral_clips whose score reaches min_score, at most max_clips
RECURSIVE SelectSeq2(_, _)
SelectSeq2(all, min_score) ==
    IF all = <<>> THEN <<>>
    ELSE IF Head(all).score >= min_score
         THEN <<Head(all)>> \o SelectSeq2(Tail(all), min_score)
         ELSE SelectSeq2(Tail(all), min_score)

FindViralMomentsBasic(call) ==
    LET filtered == SelectSeq2(FindViralClips(call.cands, call.max_clips * 2),
                               call.min_score)
    IN  SubSeq(filtered, 1, Min2(call.max_clips, Len(filtered)))

\* inputs of the selector: n candidates whose totals repeat a pattern of three
Totals == {20001, 20004, 20006}
Patterns == [1..3 -> Totals]
Candidates(n, pat) == [i \in 1..n |-> [start |-> 400 * i, total |-> pat[((i - 1) % 3) + 1]]]
Durations == {90, 119, 120, 299, 300, 599, 600, 1199, 1200}
Lengths == {<<30, 90>>, <<30, 45>>}
RequestedMax == {0, 1, 3, 11}
MinScores == {0, 4000}

NoSelectCall ==
    [cands |-> <<>>, max_clips |-> 0, min_score |-> 0, seconds |-> 0,
     min_length |-> 0, max_length |-> 0]

SelectCalls ==
    {[cands |-> Candidates(n, pat), max_clips |-> m, min_score |-> ms, seconds |-> d,
      min_length |-> l[1], max_length |-> l[2]] :
        n \in 0..MaxCandidates, pat \in Patterns, m \in RequestedMax,
        ms \in MinScores, d \in Durations, l \in Lengths}

\* one call of _find_viral_moments
FindMoments ==
    /\ spc = "call"
    /\ spc' = "done"
    /\ selOut' = FindViralMoments(selIn)
    /\ UNCHANGED selIn
    /\ UNCHANGED <<brokerVars, workerVars, response, clipVars, segmentVars, downloadVars,
                   captionVars, scriptVars>>

\* one call of ViralClipGenerator._find_viral_moments
FindMomentsBasic ==
    /\ spc = "call"
    /\ spc' = "done_basic"
    /\ selOut' = FindViralMomentsBasic(selIn)
    /\ UNCHANGED selIn
    /\ UNCHANGED <<brokerVars, workerVars, response, clipVars, segmentVars, downloadVars,
                   captionVars, scriptVars>>

\* ------------------------------------------------------------ specification
ControlInit ==
    /\ jobs = [j \in JobIds |-> NoJob]
    /\ queue = <<>>
    /\ nextTicket = 1
    /\ claimed = {}
    /\ submitted = {}
    /\ response = NoResponse
    /\ wpc = "idle"
    /\ wjob = 0
    /\ wargs = NoCall
    /\ wsub = NoSub
    /\ werr = FALSE
    /\ worig = "service"
    /\ disk = {}
    /\ cwd = "service"

ClipsIdle ==
    /\ gresult = <<>>
    /\ gtried = {}
    /\ gdone = {}
    /\ gfail = [i \in ClipIds |-> "none"]
    /\ gcwd = "service"
    /\ gorig = "service"
    /\ gstatus = "none"
    /\ gexit = NotExited
    /\ glog = [i \in ClipIds |-> "none"]

SelectIdle ==
    /\ spc = "off"
    /\ selIn = NoSelectCall
    /\ selOut = <<>>

SegmentIdle ==
    /\ segpc = "off"
    /\ segIn = NoSegmentCall
    /\ segOut = <<>>

DownloadIdle ==
    /\ dpc = "off"
    /\ attempt = 0
    /\ dlog = <<>>

CaptionIdle ==
    /\ cpc = "off"
    /\ capIn = NoCaptionCall
    /\ capOut = <<>>

ChunkIdle ==
    /\ kpc = "off"
    /\ kIn = NoChunkCall
    /\ krun = 0
    /\ ki = 0
    /\ kprev = NonePrevSize
    /\ klines = <<>>
    /\ kfirst = <<>>

EventsIdle ==
    /\ epc = "off"
    /\ eIn = <<>>
    /\ eOut = <<>>

DetectIdle ==
    /\ fpc = "off"
    /\ fIn = NoDetectCall
    /\ fOut = NoDetectResult

ScriptIdle == ChunkIdle /\ EventsIdle /\ DetectIdle

\* no clip generator process
ClipsOff ==
    /\ ClipsIdle
    /\ gpc = "off"
    /\ gjob = "unbound"
    /\ gn = NoSelection
    /\ gidx = 0
    /\ gdisk = {}

\* the control plane: API, broker and worker
Init ==
    /\ ControlInit
    /\ ScriptIdle
    /\ ClipsIdle
    /\ SelectIdle
    /\ SegmentIdle
    /\ DownloadIdle
    /\ CaptionIdle
    /\ gpc = "off"
    /\ gjob = "unbound"
    /\ gn = NoSelection
    /\ gidx = 0
    /\ gdisk = {}

Next ==
    \/ Submit
    \/ Poll
    \/ Claim
    \/ StartJob
    \/ Download
    \/ BeginExtract
    \/ Extract
    \/ BeginTranscribe
    \/ Transcribe
    \/ AfterTranscribe
    \/ Layout
    \/ BeginSubtitles
    \/ Subtitles
    \/ BurnSetup
    \/ Burn
    \/ Fallback
    \/ BeginFinalize
    \/ Finalize

Spec == Init /\ [][Next]_vars

\* the clip generator, entered from the command line (job_id bound to None or
\* to --job-id) or in generate_complete_viral_clips on the gn clips that
\* _find_viral_moments selected from a downloaded video
InitClips ==
    /\ ControlInit
    /\ ScriptIdle
    /\ ClipsIdle
    /\ SelectIdle
    /\ SegmentIdle
    /\ DownloadIdle
    /\ CaptionIdle
    /\ gidx = 0
    /\ \/ /\ gpc = "cli"
          /\ gjob \in {"none", "id"}
          /\ gn = NoSelection
          /\ gdisk = {}
       \/ /\ gpc = "selected"
          /\ gjob \in {"unbound", "none", "id"}
          /\ gn \in 0..MaxClips
          /\ gdisk = {<<"temp_dir", 0>>}

NextClips ==
    \/ CliStart
    \/ CliDownload
    \/ NameClip
    \/ CutClip
    \/ ReframeClip
    \/ CompileClip
    \/ BurnSetupClip
    \/ BurnClip
    \/ BeginClips
    \/ ReturnClips
    \/ MainFinish

SpecClips == InitClips /\ [][NextClips]_vars

\* the selector called on the candidates of a transcript
InitSelect ==
    /\ ControlInit
    /\ ScriptIdle
    /\ ClipsOff
    /\ spc = "call"
    /\ selIn \in SelectCalls
    /\ selOut = <<>>
    /\ SegmentIdle
    /\ DownloadIdle
    /\ CaptionIdle

NextSelect == FindMoments \/ FindMomentsBasic

SpecSelect == InitSelect /\ [][NextSelect]_vars

\* segment_transcript called on a transcript
InitSegment ==
    /\ ControlInit
    /\ ScriptIdle
    /\ ClipsOff
    /\ SelectIdle
    /\ segpc = "call"
    /\ segIn \in SegmentCalls
    /\ segOut = <<>>
    /\ DownloadIdle
    /\ CaptionIdle

NextSegment == Segment

SpecSegment == InitSegment /\ [][NextSegment]_vars

\* the download of process_video
InitDownload ==
    /\ ControlInit
    /\ ScriptIdle
    /\ ClipsOff
    /\ SelectIdle
    /\ SegmentIdle
    /\ dpc = "loop"
    /\ attempt = 0
    /\ dlog = <<>>
    /\ CaptionIdle

NextDownload ==
    \/ DlAttempt
    \/ DlResult
    \/ DlGiveUp

SpecDownload == InitDownload /\ [][NextDownload]_vars

\* the caption times of one rendered clip
InitCaption ==
    /\ ControlInit
    /\ ScriptIdle
    /\ ClipsOff
    /\ SelectIdle
    /\ SegmentIdle
    /\ DownloadIdle
    /\ cpc = "call"
    /\ capIn \in CaptionCalls
    /\ capOut = <<>>

NextCaption == CompileCaptions

SpecCaption == InitCaption /\ [][NextCaption]_vars

\* two compilations of the same words with a random_chunking template
InitChunk ==
    /\ ControlInit
    /\ ClipsOff
    /\ SelectIdle
    /\ SegmentIdle
    /\ DownloadIdle
    /\ CaptionIdle
    /\ kpc = "chunk"
    /\ kIn \in ChunkCalls
    /\ krun = 1
    /\ ki = 0
    /\ kprev = NonePrevSize
    /\ klines = <<>>
    /\ kfirst = <<>>
    /\ EventsIdle
    /\ DetectIdle

NextChunk == ChunkStep \/ ChunkReturn

SpecChunk == InitChunk /\ [][NextChunk]_vars

\* generate_karaoke_captions called on word-timed segments
InitEvents ==
    /\ ControlInit
    /\ ClipsOff
    /\ SelectIdle
    /\ SegmentIdle
    /\ DownloadIdle
    /\ CaptionIdle
    /\ ChunkIdle
    /\ epc = "call"
    /\ eIn \in EventCalls
    /\ eOut = <<>>
    /\ DetectIdle

NextEvents == CompileKaraoke \/ CompilePodcast

SpecEvents == InitEvents /\ [][NextEvents]_vars

\* a call of the face-centre or of the voice-window operation
InitDetect ==
    /\ ControlInit
    /\ ClipsOff
    /\ SelectIdle
    /\ SegmentIdle
    /\ DownloadIdle
    /\ CaptionIdle
    /\ ChunkIdle
    /\ EventsIdle
    /\ fpc = "call"
    /\ fIn \in FaceCalls \cup VoiceCalls
    /\ fOut = NoDetectResult

NextDetect == FaceCenter \/ VoiceWindow

SpecDetect == InitDetect /\ [][NextDetect]_vars

\* ================================================================== claims
Live == {"queued", "started"}
Terminal == {"finished", "failed"}

LegalMoves ==
    {<<"absent", "queued">>, <<"queued", "started">>,
     <<"started", "finished">>, <<"started", "failed">>}

\* C1: a job changes state only along queued -> running -> completed or
\* failed: created in queued, running only by a claim, terminal only from
\* running.
C1_LifecycleOrder ==
    [][\A j \in JobIds :
          jobs'[j].status # jobs[j].status
          => <<jobs[j].status, jobs'[j].status>> \in LegalMoves]_vars

\* C2: once a job is completed or failed, no step changes its state,
\* progress, result or error.
C2_TerminalImmutable ==
    [][\A j \in JobIds :
          jobs[j].status \in Terminal
          => /\ jobs'[j].status = jobs[j].status
             /\ jobs'[j].meta = jobs[j].meta
             /\ jobs'[j].result = jobs[j].result
             /\ jobs'[j].exc_info = jobs[j].exc_info]_vars

\* C3: a run in which a stage raised ends with the job failed and the
\* traceback on its record.
C3_RaisedMeansFailed ==
    [][(wpc # "idle" /\ wpc' = "idle" /\ werr')
          => /\ jobs'[wjob].status = "failed"
             /\ jobs'[wjob].exc_info # NoneV]_vars

\* C4: no enqueue is accepted under an id whose job is queued or running.
C4_LiveIdRejected ==
    [][\A j \in JobIds :
          jobs[j].status \in Live
          => ~(nextTicket' # nextTicket /\ response'.job_id = j)]_vars

\* C5: jobs are claimed in enqueue order: when an enqueue has been claimed,
\* every earlier enqueue has been claimed too.
C5_FifoClaim == \A t \in claimed : \A u \in 1..t : u \in claimed

C5_Witness == claimed = {1, 2} /\ wpc = "start"

\* C6: a poll of an id that was never submitted is answered 200 with the
\* not_found sentinel.
C6_UnknownIdNotFound ==
    (response.kind = "poll" /\ ~response.known)
    => (response.code = 200 /\ response.status = "not_found")

C6_Witness ==
    /\ response.kind = "poll"
    /\ ~response.known
    /\ response.job_id \in JobIds
    /\ \E j \in JobIds : jobs[j].status \in Terminal

\* the defects of a submission that C7 lists
Defective(form) ==
    \/ form.job_id = 0
    \/ (form.youtube_url = "" /\ form.video_url = "")
    \/ form.opus_template = <<>>
    \/ ~JsonValid(form.opus_template)
    \/ \E f \in NumericFields :
          form.numbers[f] # <<>> /\ ~IsIntLiteral(form.numbers[f])

SubmitStep ==
    /\ response'.kind = "submit"
    /\ UNCHANGED workerVars
    /\ (response' # response \/ brokerVars' # brokerVars)

\* C7: a defective submission is answered 400 and enqueues nothing; a
\* submission answered 200 has been enqueued under the id it returns.
C7_Validation ==
    [][SubmitStep =>
          /\ (response'.form \in BadForms /\ Defective(response'.form))
                => (response'.code = 400 /\ UNCHANGED brokerVars)
          /\ response'.code = 200
                => /\ Len(queue') = Len(queue) + 1
                   /\ \E i \in 1..Len(queue') : queue'[i].id = response'.job_id
                   /\ jobs'[response'.job_id].status = "queued"]_vars

C7_Witness ==
    /\ response.kind = "submit"
    /\ response.code = 400
    /\ response.form.numbers.timeframe_start = <<"5", ".", "0">>
    /\ queue # <<>>

\* C8: the worker's pipeline runs with the timeframe and the clip lengths
\* that were submitted with the job.
C8_SubmittedParamsRun ==
    wpc # "idle"
    => /\ wargs.timeframe_start = wsub.timeframe_start
       /\ wargs.timeframe_end = wsub.timeframe_end
       /\ wargs.min_clip_length = wsub.min_clip_length
       /\ wargs.max_clip_length = wsub.max_clip_length
       /\ wargs.target_clip_length = wsub.target_clip_length

\* C9: when the clip generator's job has ended, nothing it created for
\* temporary use (working directory, intermediates, subtitle scripts) is on
\* disk.
C9_NoTempFilesLeft == gpc = "exited" => gdisk = {}

\* C10: after a clip fails the loop goes on: when the renderer returns, every
\* selected clip has been attempted and every clip that rendered is in the
\* result.
C10_ContinueAfterFailure ==
    gpc = "returned"
    => /\ gtried = 1..gn
       /\ \A i \in gdone : \E k \in 1..Len(gresult) : gresult[k] = i

C10_Witness ==
    /\ gpc = "returned"
    /\ gn >= 2
    /\ gfail[1] = "cutting"
    /\ 2 \in gdone
    /\ gresult = <<2>>

\* C11: a job whose selection was not empty ends completed when at least one
\* clip rendered and ends in error when every clip failed to render.
C11_FatalOnlyIfAllFail ==
    (gpc = "exited" /\ gjob = "id" /\ gn >= 1)
    => /\ gdone # {} => gstatus = "completed"
       /\ gdone = {} => gstatus = "error"

C11_Witness ==
    /\ gpc = "exited"
    /\ gjob = "id"
    /\ gn >= 2
    /\ gfail[1] = "burning"
    /\ gdone = {2}
    /\ gstatus = "completed"

C13_Ceiling(d) ==
    CASE d >= 1200 -> 10 [] d >= 600 /\ d < 1200 -> 8 [] d >= 300 /\ d < 600 -> 5
      [] d >= 120 /\ d < 300 -> 3 [] OTHER -> 2

C13_Min(S) == CHOOSE x \in S : \A y \in S : x <= y

C14_Total(e) == selIn.cands[e.idx].total

C14_Start(e) == selIn.cands[e.idx].start

C14_RankedOrder ==
    spc = "done"
    => \A p, q \in 1..Len(selOut) :
          p < q => /\ \/ C14_Total(selOut[p]) > C14_Total(selOut[q])
                      \/ /\ C14_Total(selOut[p]) = C14_Total(selOut[q])
                         /\ C14_Start(selOut[p]) < C14_Start(selOut[q])
                   /\ selOut[p].score >= selOut[q].score

C14_Witness ==
    /\ spc = "done"
    /\ \E p \in 1..(Len(selOut) - 1) :
          /\ C14_Total(selOut[p]) = C14_Total(selOut[p + 1])
          /\ C14_Start(selOut[p]) < C14_Start(selOut[p + 1])
    /\ \E p \in 1..(Len(selOut) - 1) :
          /\ selOut[p].score = selOut[p + 1].score
          /\ C14_Total(selOut[p]) > C14_Total(selOut[p + 1])
          /\ C14_Start(selOut[p]) > C14_Start(selOut[p + 1])

\* C15: whatever min_score is, when there is a candidate and the count
\* limits allow a clip, a selector's result is not empty and holds the best
\* candidates: no candidate left out has a higher total than one returned.
C15_NeverFilteredByScore ==
    (/\ spc \in {"done", "done_basic"}
     /\ Len(selIn.cands) >= 1
     /\ selIn.max_clips >= 1
     /\ (2 * selIn.seconds) \div (selIn.min_length + selIn.max_length) >= 1)
    => /\ Len(selOut) >= 1
       /\ \A p \in 1..Len(selOut) : \A i \in 1..Len(selIn.cands) :
             (\A q \in 1..Len(selOut) : selOut[q].idx # i)
             => selIn.cands[i].total <= C14_Total(selOut[p])

\* C16: every candidate clip of the segmentation lasts at least min_length
\* and at most max_length, is made of segments that follow one another in
\* the transcript, and its text is the text of those segments in order.
C16_Joined(segs) == Strip(ClipText(segs, 1, Len(segs)))

C16_CandidateWindows ==
    segpc = "done"
    => \A c \in 1..Len(segOut) :
          LET clip == segOut[c]
              n == Len(clip.segments)
          IN  /\ segIn.detector.min_length <= clip.duration
              /\ clip.duration <= segIn.detector.max_length
              /\ n >= 1
              /\ clip.first + n - 1 <= Len(segIn.segs)
              /\ \A k \in 1..n : clip.segments[k] = segIn.segs[clip.first + k - 1]
              /\ clip.duration = clip.segments[n].end_time - clip.segments[1].start_time
              /\ clip.transcript = C16_Joined(clip.segments)

C16_Witness ==
    /\ segpc = "done"
    /\ Len(segOut) >= 2
    /\ \E c \in 1..Len(segOut) : Len(segOut[c].segments) >= 2
    /\ \E c \in 1..Len(segOut) : segOut[c].duration = segIn.detector.max_length
    /\ \E k \in 1..Len(segIn.segs) :
          \A c \in 1..Len(segOut) : segOut[c].first # k

\* C17: the download is attempted at most 3 times, every attempt after the
\* first comes right after a wait of 3 s, and the download is given up as
\* failed only after the last attempt failed and never counts as done after
\* a failed attempt.
C17_DownloadRetry ==
    /\ Cardinality({k \in 1..Len(dlog) : dlog[k].ev = "attempt"}) <= 3
    /\ \A k \in 1..Len(dlog) :
          (dlog[k].ev = "attempt" /\ k > 1) => dlog[k - 1] = Event("sleep", 3)
    /\ dpc = "raised"
       => /\ Cardinality({k \in 1..Len(dlog) : dlog[k].ev = "attempt"}) = 3
          /\ dlog[Len(dlog)].ev # "ok"
    /\ dpc = "downloaded" => dlog[Len(dlog)].ev = "ok"

\* C18: whenever the pipeline waits for a child process, the call it waits
\* in carries a timeout.
C18_EveryChildHasTimeout ==
    wpc \in ChildStages => ChildTimeout(wpc) # NoTimeout

\* C20: for every word of a rendered clip, the time written for it in the
\* caption script is the word's start minus the start of the clip's candidate
\* window, within 1 ms either way.
C20_ScheduledMs(t) == (t.h * 60 + t.m) * 60000 + t.cs * 10

C20_CaptionTimes ==
    cpc = "done"
    => \A k \in 1..Len(capIn.words) :
          /\ C20_ScheduledMs(capOut[k]) - (capIn.words[k] - capIn.start_time) <= 1
          /\ (capIn.words[k] - capIn.start_time) - C20_ScheduledMs(capOut[k]) <= 1

\* C22: the command-line clip generator exits with code 0 when the pipeline
\* succeeded (at least one clip rendered) and with a non-zero code when the
\* pipeline failed (the download raised, or every selected clip failed to
\* render).
C22_ExitCode ==
    gpc = "exited"
    => /\ (gn >= 1 /\ gdone # {}) => gexit = 0
       /\ (gn = NoSelection \/ (gn >= 1 /\ gdone = {})) => gexit # 0

\* C23: each clip passes through cutting, reframing, compiling and burning in
\* this order before it is done, a stage starts only after the previous stage
\* of that clip succeeded, and a clip that failed in one of these stages has
\* that stage recorded (in the line printed for it).
C23_Stages == <<"cut", "reframe", "compile", "burn_setup", "burn">>

C23_StageNamedBy(message) ==
    CASE message = "Segment extraction failed" -> "cutting"
      [] message = "Layout processing failed" -> "reframing"
      [] message = "Caption generation failed" -> "compiling"
      [] message = "Caption burning failed" -> "burning"
      [] OTHER -> "none"

C24_BurnOrError ==
    [][/\ (wpc' = "burn" /\ wpc # "burn") => wpc = "setup"
       /\ (wpc = "burn" /\ wpc' # "burn")
          => \/ wpc' = "p85"
             \/ wpc' = "idle" /\ jobs'[wjob].status = "failed"]_vars

\* C29: while the pipeline runs a job, from its first progress report to the
\* end of the run (returned or raised), the progress percentage that a status
\* poll of the job returns never decreases from one step to the next.
C29_ProgressMonotone ==
    [][(wpc \notin {"idle", "start"})
          => GetJobStatus(wjob)'.progress >= GetJobStatus(wjob).progress]_vars

\* C30: when a job of the worker returns or raises, and when a clip render
\* of the clip generator returns, the current working directory of the
\* process is the one it had when the job or the render started (the saved
\* original directory once the burn has saved it, the unchanged directory
\* before).
C30_ClipRenderStages == {"cut", "reframe", "compile", "burn_setup", "burn"}

C30_CwdRestored ==
    [][/\ (wpc # "idle" /\ wpc' = "idle")
          => cwd' = IF wpc \in {"burn", "fallback"} THEN worig ELSE cwd
       /\ (gpc \in C30_ClipRenderStages /\ gpc' = "name")
          => gcwd' = IF gpc = "burn" THEN gorig ELSE gcwd]_vars

\* C21: two compilations of the same words with the same template give the
\* same script: the second compilation breaks the words into the same lines
\* as the first.
C21_SameScript == kpc = "done" => klines = kfirst

\* C26: variable chunking gives lines whose sizes all lie between
\* min_words_per_line and max_words_per_line, and never two single-word
\* lines in a row, for every number of words and every min/max setting that
\* admit such lines at all.
RECURSIVE C26_CanChunk(_, _, _, _)
C26_CanChunk(n, min_w, max_w, after_one) ==
    \/ n = 0
    \/ \E size \in min_w..max_w :
          /\ size <= n
          /\ ~(after_one /\ size = 1)
          /\ C26_CanChunk(n - size, min_w, max_w, size = 1)

C26_LineSizes ==
    C26_CanChunk(kIn.n, kIn.min_w, kIn.max_w, FALSE)
    => /\ \A k \in 1..Len(klines) : klines[k] >= kIn.min_w /\ klines[k] <= kIn.max_w
       /\ \A k \in 1..(Len(klines) - 1) : ~(klines[k] = 1 /\ klines[k + 1] = 1)

\* C25: in a Karaoke script every gap between two consecutive words is
\* covered by an event that highlights no word, and no two events that
\* highlight different words are on screen at the same instant.
C25_Cs(t) == (t.h * 60 + t.m) * 6000 + t.cs

C25_GapsCoveredOneActive ==
    epc = "karaoke"
    => /\ \A k \in 1..(Len(eIn) - 1) :
             eIn[k + 1].start > eIn[k].end
             => \E e \in 1..Len(eOut) :
                   eOut[e] = AssEvent(eIn[k].end, eIn[k + 1].start, 0)
       /\ \A a, b \in 1..Len(eOut) :
             (eOut[a].active # 0 /\ eOut[b].active # 0
              /\ eOut[a].active # eOut[b].active)
             => ~(/\ C25_Cs(eOut[a].start) < C25_Cs(eOut[b].end)
                  /\ C25_Cs(eOut[b].start) < C25_Cs(eOut[a].end))

\* C27: in a PodcastPro script, a line whose first word starts less than
\* 0.3 s after the last word of the line before it ended has its event start
\* at that end.
C27_ShortGapsClosed ==
    epc = "podcast"
    => LET chunks == ChunkWords(Len(eIn), PodcastWordsPerLine) IN
       \A c \in 2..Len(chunks) :
          LET first == eIn[chunks[c][1]].start
              prev_end == eIn[chunks[c - 1][Len(chunks[c - 1])]].end
          IN (first >= prev_end /\ first - prev_end < 300)
             => eOut[c].start = FormatTime(prev_end)

\* C28: the face-centre and the voice-window operations never raise: when
\* the video cannot be opened, a frame cannot be read or analysed, the face
\* operation still returns (the frame centre when a frame was read), and
\* when the audio analysis fails the voice operation returns "left".
C28_NeverRaise ==
    fpc = "done"
    => /\ ~fOut.raised
       /\ (fIn.op = "face" /\ fIn.opened /\ fIn.frames > 0 /\ fIn.detect = "raises")
          => fOut.value = FrameCenter(fIn)
       /\ (fIn.op = "voice" /\ fIn.load = "raises") => fOut.value = "left"
====
